---------------------------- MODULE Spec2Model ----------------------------
(***************************************************************************)
(* VyomNetra space chat backend (src/main.py).                             *)
(*                                                                         *)
(* One request at a time is followed through space_chat: the JSON body is  *)
(* read, the message is lowercased, the if/elif chain picks a branch, and  *)
(* the branch either answers from a static table or issues one outbound    *)
(* call (NASA APOD, NASA NEO, SpaceX, Gemini) whose outcome is chosen by   *)
(* the environment.  Texts are strings; long literals of the source are    *)
(* abbreviated to their headline.                                          *)
(***************************************************************************)
EXTENDS Integers, Sequences, FiniteSets, TLC

VARIABLES model, pc, body, user_message, topic, calls, prompt, reply,
          response, status, last

vars == <<model, pc, body, user_message, topic, calls, prompt, reply,
          response, status, last>>

-----------------------------------------------------------------------------
(* Bounds of the model *)

\* a message is the concatenation of at most MaxFrags fragments
MaxFrags == 2

\* fragments the client composes messages from
Fragments ==
  { "photo", "neo", "mars", "launch", "isro", "orion", "andromeda galaxy",
    "galaxy", "venus", "neutron star", "sun", "scorpio", "constellation",
    "Hello", "what is " }

\* fragments of the two-exchange specification
PairFragments == { "scorpio", "scorpius", "orion", "ORION" }

RECURSIVE Compose(_, _)
Compose(frags, n) ==
  IF n = 0 THEN {""}
  ELSE LET S == Compose(frags, n - 1)
       IN  S \cup { s \o f : s \in S, f \in frags }

Messages == Compose(Fragments, MaxFrags)

PairMessages == Compose(PairFragments, MaxFrags)

-----------------------------------------------------------------------------
(* Strings *)

UpperCase == <<"A","B","C","D","E","F","G","H","I","J","K","L","M",
               "N","O","P","Q","R","S","T","U","V","W","X","Y","Z">>

LowerCase == <<"a","b","c","d","e","f","g","h","i","j","k","l","m",
               "n","o","p","q","r","s","t","u","v","w","x","y","z">>

\* str.lower() for one character
lower_char_identity(c) == c

lower_char(c) ==
  IF \E i \in 1..26 : UpperCase[i] = c
  THEN LowerCase[CHOOSE i \in 1..26 : UpperCase[i] = c]
  ELSE c

\* str.lower()
RECURSIVE lower(_)
lower(s) ==
  IF Len(s) = 0 THEN ""
  ELSE lower_char(SubSeq(s, 1, 1)) \o lower(SubSeq(s, 2, Len(s)))

\* Python's  k in s  for strings
Contains(k, s) ==
  \E i \in 1..(Len(s) - Len(k) + 1) : SubSeq(s, i, i + Len(k) - 1) = k

\* any(k in s for k in keys)
AnyIn(keys, s) == \E i \in DOMAIN keys : Contains(keys[i], s)

-----------------------------------------------------------------------------
(* Static tables.  Each text is abbreviated to its headline. *)

apod_facts ==
  << "**NASA's APOD Program**: Every day since 1995 ...",
     "**Did you know?** NASA's Astronomy Picture of the Day ...",
     "**APOD Archive**: The NASA APOD archive ..." >>

neo_facts ==
  << "**NASA NEO Program**: NASA tracks over 90% ...",
     "**Asteroid Facts**: There are currently over 28,000 ...",
     "**Planetary Defense**: NASA's DART mission ..." >>

mars_facts ==
  << "**Mars Rover Update**: NASA's Perseverance rover ...",
     "**Rover Fleet**: NASA has successfully operated 5 rovers ...",
     "**Mars Discovery**: NASA's rovers have confirmed ...",
     "**Current Mission**: Perseverance has collected ..." >>

spacex_facts ==
  << "**SpaceX Achievements**: SpaceX has revolutionized ...",
     "**Starship Program**: SpaceX is developing Starship ...",
     "**Starlink Network**: SpaceX has deployed ..." >>

isro_facts ==
  << "**ISRO Achievements**: India's Mars Orbiter Mission ...",
     "**Chandrayaan Program**: ISRO's Chandrayaan-3 ...",
     "**PSLV Success**: ISRO's Polar Satellite Launch Vehicle ...",
     "**Global Impact**: ISRO provides crucial Earth observation data ...",
     "**Future Missions**: ISRO is planning Gaganyaan ..." >>

space_facts ==
  << "**NASA Discovery**: The James Webb Space Telescope ...",
     "**Stellar Facts**: According to NASA data ...",
     "**Earth Science**: NASA Earth observing satellites ...",
     "**Solar System**: NASA's Juno mission ...",
     "**ISS Updates**: The International Space Station ...",
     "**Exoplanet Hunt**: NASA has confirmed over 5,000 exoplanets ..." >>

\* random.choice(facts): any entry of the list
Choice(facts) == { facts[i] : i \in DOMAIN facts }

scorpio_info ==
  "**Scorpio (The Scorpion)**: A spectacular zodiac constellation ..."

orion_info ==
  "**Orion (The Hunter)**: ... the iconic three stars of Orion's Belt ..."

\* dict of get_constellation_info, in insertion order
constellation_data ==
  << [key |-> "ursa major", info |-> "**Ursa Major (The Great Bear)**: ..."],
     [key |-> "big dipper", info |-> "**The Big Dipper**: ..."],
     [key |-> "ursa minor", info |-> "**Ursa Minor (The Little Bear)**: ..."],
     [key |-> "orion",      info |-> orion_info],
     [key |-> "cassiopeia", info |-> "**Cassiopeia (The Queen)**: ..."],
     [key |-> "andromeda",  info |-> "**Andromeda (The Princess)**: ..."],
     [key |-> "scorpio",    info |-> scorpio_info],
     [key |-> "scorpius",   info |-> scorpio_info],
     [key |-> "leo",        info |-> "**Leo (The Lion)**: ..."],
     [key |-> "virgo",      info |-> "**Virgo (The Virgin)**: ..."],
     [key |-> "gemini",     info |-> "**Gemini (The Twins)**: ..."],
     [key |-> "cancer",     info |-> "**Cancer (The Crab)**: ..."],
     [key |-> "aquarius",   info |-> "**Aquarius (The Water Bearer)**: ..."],
     [key |-> "pisces",     info |-> "**Pisces (The Fishes)**: ..."] >>

constellation_default ==
  "**Constellations**: Star patterns that have guided humanity ..."

\* dict of get_planet_info, in insertion order
planet_data ==
  << [key |-> "mercury", info |-> "**Mercury**: The closest planet to the Sun ..."],
     [key |-> "venus",   info |-> "**Venus**: Earth's 'evil twin' ..."],
     [key |-> "earth",   info |-> "**Earth**: Our beautiful blue marble ..."],
     [key |-> "mars",    info |-> "**Mars**: The Red Planet ..."],
     [key |-> "jupiter", info |-> "**Jupiter**: The king of planets! ..."],
     [key |-> "saturn",  info |-> "**Saturn**: The jewel of our solar system ..."],
     [key |-> "uranus",  info |-> "**Uranus**: The tilted ice giant! ..."],
     [key |-> "neptune", info |-> "**Neptune**: The windiest planet ..."] >>

planet_default ==
  "**Our Solar System**: Contains 8 amazing planets ..."

\* as stellar_data, with the longer key 'neutron star' before 'star'
stellar_data_longest_first ==
  << [key |-> "neutron star", info |-> "**Neutron Stars**: The ultra-dense remnants ..."],
     [key |-> "star",         info |-> "**Stars**: Massive nuclear fusion reactors ..."],
     [key |-> "sun",          info |-> "**Our Sun**: A middle-aged yellow dwarf star ..."],
     [key |-> "supernova",    info |-> "**Supernovae**: The explosive death of massive stars! ..."],
     [key |-> "white dwarf",  info |-> "**White Dwarfs**: The hot, dense cores ..."],
     [key |-> "black hole",   info |-> "**Black Holes**: Regions of spacetime ..."] >>

\* dict of get_stellar_info, in insertion order
stellar_data ==
  << [key |-> "star",         info |-> "**Stars**: Massive nuclear fusion reactors ..."],
     [key |-> "sun",          info |-> "**Our Sun**: A middle-aged yellow dwarf star ..."],
     [key |-> "supernova",    info |-> "**Supernovae**: The explosive death of massive stars! ..."],
     [key |-> "neutron star", info |-> "**Neutron Stars**: The ultra-dense remnants ..."],
     [key |-> "white dwarf",  info |-> "**White Dwarfs**: The hot, dense cores ..."],
     [key |-> "black hole",   info |-> "**Black Holes**: Regions of spacetime ..."] >>

stellar_default ==
  "**Stars and Stellar Objects**: The universe is filled ..."

\* dict of get_galaxy_info, in insertion order
galaxy_data ==
  << [key |-> "milky way",        info |-> "**The Milky Way**: Our home galaxy ..."],
     [key |-> "andromeda galaxy", info |-> "**Andromeda Galaxy (M31)**: Our nearest major galactic neighbor ..."],
     [key |-> "galaxy",           info |-> "**Galaxies**: Massive collections of stars ..."] >>

galaxy_default ==
  "**Galaxies**: Island universes containing billions to trillions of stars! ..."

\* as Lookup, but the last key contained in the message wins
Lookup_last_match(data, default, s) ==
  IF \E i \in DOMAIN data : Contains(data[i].key, s)
  THEN data[CHOOSE i \in DOMAIN data :
              /\ Contains(data[i].key, s)
              /\ \A j \in (i + 1)..Len(data) : ~Contains(data[j].key, s)].info
  ELSE default

\*  for key, info in data.items(): if key in user_message: return info
\*  return default
Lookup(data, default, s) ==
  IF \E i \in DOMAIN data : Contains(data[i].key, s)
  THEN data[CHOOSE i \in DOMAIN data :
              /\ Contains(data[i].key, s)
              /\ \A j \in 1..(i - 1) : ~Contains(data[j].key, s)].info
  ELSE default

get_constellation_info(s) == Lookup(constellation_data, constellation_default, s)

get_planet_info(s) == Lookup(planet_data, planet_default, s)

get_stellar_info(s) == Lookup(stellar_data, stellar_default, s)

get_galaxy_info(s) == Lookup(galaxy_data, galaxy_default, s)

-----------------------------------------------------------------------------
(* The if/elif chain of space_chat *)

apod_keywords == <<"apod", "picture", "photo", "image">>

neo_keywords == <<"asteroid", "neo", "near earth">>

mars_keywords == <<"mars", "rover", "curiosity">>

spacex_keywords == <<"spacex", "launch", "rocket">>

isro_keywords == <<"isro", "indian space", "india">>

constellation_keywords ==
  <<"ursa major", "ursa minor", "orion", "cassiopeia", "andromeda",
    "constellation", "big dipper", "little dipper">>

planet_keywords ==
  <<"mercury", "venus", "earth", "mars", "jupiter", "saturn", "uranus",
    "neptune", "planet">>

stellar_keywords ==
  <<"star", "sun", "supernova", "neutron star", "white dwarf", "black hole">>

galaxy_keywords ==
  <<"galaxy", "milky way", "andromeda galaxy", "spiral galaxy">>

\* as Branch, with the planet names tested before the rover keywords
Branch_planet_before_mars(s) ==
  IF AnyIn(apod_keywords, s) THEN "picture-of-day"
  ELSE IF AnyIn(neo_keywords, s) THEN "near-earth-object"
  ELSE IF AnyIn(planet_keywords, s) THEN "planet"
  ELSE IF AnyIn(mars_keywords, s) THEN "mars-rover"
  ELSE IF AnyIn(spacex_keywords, s) THEN "launch"
  ELSE IF AnyIn(isro_keywords, s) THEN "agency-trivia"
  ELSE IF AnyIn(constellation_keywords, s) THEN "constellation"
  ELSE IF AnyIn(stellar_keywords, s) THEN "star"
  ELSE IF AnyIn(galaxy_keywords, s) THEN "galaxy"
  ELSE "general"

\* the branch space_chat takes for a lowercased message
Branch(s) ==
  IF AnyIn(apod_keywords, s) THEN "picture-of-day"
  ELSE IF AnyIn(neo_keywords, s) THEN "near-earth-object"
  ELSE IF AnyIn(mars_keywords, s) THEN "mars-rover"
  ELSE IF AnyIn(spacex_keywords, s) THEN "launch"
  ELSE IF AnyIn(isro_keywords, s) THEN "agency-trivia"
  ELSE IF AnyIn(constellation_keywords, s) THEN "constellation"
  ELSE IF AnyIn(planet_keywords, s) THEN "planet"
  ELSE IF AnyIn(stellar_keywords, s) THEN "star"
  ELSE IF AnyIn(galaxy_keywords, s) THEN "galaxy"
  ELSE "general"

LiveTopics == {"picture-of-day", "near-earth-object", "launch"}

KeyedTopics == {"constellation", "planet", "star", "galaxy"}

-----------------------------------------------------------------------------
(* Request bodies *)

\* POST bodies: a JSON object with a string message, a JSON object without
\* a message, a JSON object whose message is a number, a JSON array, and a
\* body that is not JSON
Bodies(msgs) ==
  { [kind |-> "message", message |-> m] : m \in msgs }
    \cup { [kind |-> k, message |-> ""] :
             k \in {"no_message", "not_string", "not_object", "not_json"} }

\* str(e) of the exception raised by lines 47-48 for a body
ErrorText(kind) ==
  CASE kind = "not_string" -> "'int' object has no attribute 'lower'"
    [] kind = "not_object" -> "'list' object has no attribute 'get'"
    [] kind = "not_json"   -> "400 Bad Request: Failed to decode JSON object"
    [] OTHER               -> ""

\* the f-string of the except branch of space_chat
Apology ==
  "I'm having trouble connecting to space agencies right now, but here's an interesting space fact: "

UniverseFact ==
  "The universe is about 13.8 billion years old and contains over 2 trillion galaxies!"

\* as BoundaryResponse, without the error text
BoundaryResponse_without_details(err) == Apology \o UniverseFact

BoundaryResponse(err) == Apology \o UniverseFact \o " Error details: " \o err

-----------------------------------------------------------------------------
(* Outcomes of the outbound calls *)

Absent == "<absent>"

\* dict.get(key, default)
Get(value, default) == IF value = Absent THEN default ELSE value

NoReply == [outcome |-> "none"]

\* requests.get raised (connection error, timeout)
Raised == [outcome |-> "raise"]

\* a response with a status other than 200
ErrorStatus == { [outcome |-> "response", status |-> st, shape |-> "none"] :
                   st \in {404, 429, 500} }

ApodReplies ==
  {Raised} \cup ErrorStatus
    \cup { [outcome |-> "response", status |-> 200, shape |-> sh,
            title |-> Absent, explanation |-> Absent, date |-> Absent,
            url |-> Absent] : sh \in {"dict", "list", "not_json"} }
    \cup { [outcome |-> "response", status |-> 200, shape |-> "dict",
            title |-> "Pillars of Creation", explanation |-> "A nebula.",
            date |-> "2026-11-06", url |-> "https://apod.nasa.gov/p.jpg"] }

get_fallback_apod_info == Choice(apod_facts)

ApodText(title, explanation, date, url) ==
  "**NASA's Astronomy Picture of the Day**: " \o title \o " " \o explanation
    \o " Date: " \o date \o " You can view it at: " \o url

\* as get_nasa_apod, without the test of the status code
get_nasa_apod_any_status(r) ==
  IF r.outcome = "response" /\ r.status # 200
  THEN { ApodText("Amazing Space Image", "A beautiful view from space!",
                  "Today", "NASA APOD website") }
  ELSE IF r.outcome = "response" /\ r.shape = "dict"
  THEN { ApodText(Get(r.title, "Amazing Space Image"),
                  Get(r.explanation, "A beautiful view from space!"),
                  Get(r.date, "Today"), Get(r.url, "NASA APOD website")) }
  ELSE get_fallback_apod_info

\* as get_nasa_apod, reading the fields with data[key]: a missing field
\* raises and the except branch answers
get_nasa_apod_strict(r) ==
  IF /\ r.outcome = "response" /\ r.status = 200 /\ r.shape = "dict"
     /\ Absent \notin {r.title, r.explanation, r.date, r.url}
  THEN { ApodText(r.title, r.explanation, r.date, r.url) }
  ELSE get_fallback_apod_info

\* lines 86-94, given the outcome of requests.get
get_nasa_apod(r) ==
  IF r.outcome = "response" /\ r.status = 200 /\ r.shape = "dict"
  THEN { ApodText(Get(r.title, "Amazing Space Image"),
                  Get(r.explanation, "A beautiful view from space!"),
                  Get(r.date, "Today"), Get(r.url, "NASA APOD website")) }
  ELSE get_fallback_apod_info

\* element_count: absent, a number, or a string;
\* objects: the list of near_earth_objects for the queried date: the key
\*   near_earth_objects is absent, the date is absent, the list is empty,
\*   or it has one entry (complete, an empty dict, or not a dict)
NeoReplies ==
  {Raised} \cup ErrorStatus
    \cup { [outcome |-> "response", status |-> 200, shape |-> sh,
            count_type |-> "absent", count |-> 0, objects |-> "absent"] :
              sh \in {"list", "not_json"} }
    \cup { [outcome |-> "response", status |-> 200, shape |-> "dict",
            count_type |-> ct[1], count |-> ct[2], objects |-> ob] :
              ct \in { <<"absent", 0>>, <<"int", 0>>, <<"int", 2>>,
                       <<"str", 0>> },
              ob \in { "absent", "no_date", "empty", "complete", "bare",
                       "not_dict" } }

get_fallback_neo_info == Choice(neo_facts)

\* str(element_count)
CountText(n) ==
  CASE n = 0 -> "0" [] n = 1 -> "1" [] n = 2 -> "2" [] OTHER -> "3"

NeoUpdate(n, name, min_diameter, max_diameter) ==
  "**NASA NEO Update**: Today, there are " \o CountText(n)
    \o " Near Earth Objects being tracked! **Featured Asteroid**: " \o name
    \o " **Estimated Size**: " \o min_diameter \o " - " \o max_diameter
    \o " meters"

\* element_count > 0 of line 116
positive_count_or_zero(n) == n >= 0

positive_count(n) == n > 0

\* if neo_objects: of line 118
nonempty_objects(ob) == ob \notin {"absent", "no_date", "empty"}

\* lines 107-129, given the outcome of requests.get
get_nasa_neo_data(r) ==
  IF r.outcome = "response" /\ r.status = 200
  THEN IF r.shape # "dict" \/ r.count_type = "str"
       THEN get_fallback_neo_info      \* the bare except of line 128
       ELSE LET element_count == IF r.count_type = "absent" THEN 0
                                 ELSE r.count
            IN  IF positive_count(element_count) /\ nonempty_objects(r.objects)
                THEN CASE r.objects = "complete" ->
                            { NeoUpdate(element_count, "(2024 AB1)",
                                        "12.3", "27.6") }
                       [] r.objects = "bare" ->
                            { NeoUpdate(element_count, "Unknown asteroid",
                                        "0.0", "0.0") }
                       [] OTHER -> get_fallback_neo_info
                ELSE get_fallback_neo_info
  ELSE get_fallback_neo_info

\* success: True, False, null or absent; details: a text, null or absent
SpacexReplies ==
  {Raised} \cup ErrorStatus
    \cup { [outcome |-> "response", status |-> 200, shape |-> sh,
            name |-> Absent, date_utc |-> Absent, details |-> Absent,
            success |-> Absent] : sh \in {"dict", "list", "not_json"} }
    \cup { [outcome |-> "response", status |-> 200, shape |-> "dict",
            name |-> "Crew-5", date_utc |-> "2022-10-05T16:00:00.000Z",
            details |-> d, success |-> su] :
              d \in {"Crew rotation flight.", "null"},
              su \in {"true", "false", "null"} }

\* lines 152-172, given the outcome of requests.get
get_spacex_launch_data(r) ==
  IF r.outcome = "response" /\ r.status = 200 /\ r.shape = "dict"
  THEN LET success == Get(r.success, "false")
           details == Get(r.details, "No details available")
           status_text == IF success = "true" THEN "Successful"
                          ELSE IF success = "false" THEN "Failed"
                          ELSE "Scheduled"
       IN  { "**Latest SpaceX Mission**: " \o Get(r.name, "Unknown Mission")
               \o " **Launch Date**: " \o Get(r.date_utc, "Unknown Date")
               \o " **Status**: " \o status_text \o " **Details**: "
               \o (IF details = "null"
                   THEN "This mission represents SpaceX continued efforts ..."
                   ELSE details) }
  ELSE Choice(spacex_facts)

\* generate_content raises, or returns a response whose .text is drawn here
GeminiReplies ==
  {Raised}
    \cup { [outcome |-> "response", text |-> tx] :
             tx \in {"", "Great question! Pulsars are ..."} }

get_mars_rover_data == Choice(mars_facts)

\* as get_isro_info, drawing from the general facts
get_isro_info_general == Choice(space_facts)

get_isro_info == Choice(isro_facts)

get_random_space_fact == Choice(space_facts)

\* as get_smart_space_answer, without the try of line 275: the error of the
\* model reaches the except branch of space_chat
get_smart_space_answer_unguarded(r) ==
  IF r.outcome = "response" THEN {r.text}
  ELSE {BoundaryResponse("model error")}

\* lines 286-292, given the outcome of model.generate_content
get_smart_space_answer(r) ==
  IF r.outcome = "response" THEN {r.text} ELSE get_random_space_fact

-----------------------------------------------------------------------------
(* The request handler *)

NoExchange == [body |-> [kind |-> "none", message |-> ""],
               topic |-> "", response |-> ""]

\* the outbound call a branch issues first, if any
Endpoint(t) ==
  CASE t = "picture-of-day"    -> "NASA_APOD_API"
    [] t = "near-earth-object" -> "neo_url"
    [] t = "launch"            -> "SPACE_NEWS_API"
    [] t = "general"           -> "model.generate_content"

\* the branches of space_chat that return without an outbound call
Answers(t, s) ==
  CASE t = "mars-rover"    -> get_mars_rover_data
    [] t = "agency-trivia" -> get_isro_info
    [] t = "constellation" -> {get_constellation_info(s)}
    [] t = "planet"        -> {get_planet_info(s)}
    [] t = "star"          -> {get_stellar_info(s)}
    [] t = "galaxy"        -> {get_galaxy_info(s)}
    [] t = "general"       -> get_random_space_fact   \* model is None

\* user_message of line 48
Normalize(m) == lower(m)

\* the f-string of lines 280-284 around the question
PromptHead ==
  "You are VyomNetra, an expert space and astronomy chatbot. ... User question: "

PromptTail ==
  " Please provide a detailed, accurate answer about the space topic they're asking about. ..."

BuildPrompt(question) == PromptHead \o question \o PromptTail

\* the argument of the outbound call of a branch: the prompt built from the
\* user_message that space_chat passes on line 71, nothing for a feed
Argument(t, s) == IF t = "general" THEN BuildPrompt(s) ELSE ""

Init ==
  /\ model \in {"None", "gemini-2.0-flash"}
  /\ pc = "idle"
  /\ body = [kind |-> "none", message |-> ""]
  /\ user_message = ""
  /\ topic = ""
  /\ calls = <<>>
  /\ prompt = ""
  /\ reply = NoReply
  /\ response = ""
  /\ status = 0
  /\ last = NoExchange

\* A request arrives and space_chat runs up to its first outbound call, or
\* to its return when the branch issues none.
space_chat(msgs) ==
  /\ pc = "idle"
  /\ \E b \in Bodies(msgs) :
       /\ body' = b
       /\ IF b.kind \in {"not_string", "not_object", "not_json"}
          THEN \* lines 47-48 raise; except branch of lines 78-82
               /\ user_message' = ""
               /\ topic' = "error"
               /\ calls' = <<>>
               /\ prompt' = ""
               /\ response' = BoundaryResponse(ErrorText(b.kind))
               /\ status' = 200
               /\ pc' = "returned"
          ELSE LET s == Normalize(b.message)
                   t == Branch(s)
               IN  /\ user_message' = s
                   /\ topic' = t
                   /\ IF t \in LiveTopics \/ (t = "general" /\ model # "None")
                      THEN /\ calls' = <<Endpoint(t)>>
                           /\ prompt' = Argument(t, s)
                           /\ response' = ""
                           /\ status' = 0
                           /\ pc' = "calling"
                      ELSE /\ calls' = <<>>
                           /\ prompt' = ""
                           /\ response' \in Answers(t, s)
                           /\ status' = 200
                           /\ pc' = "returned"
  /\ UNCHANGED <<model, reply, last>>

\* The response has been sent; nothing of the request is kept by the
\* program.  keep: the observer remembers the exchange in last.
Done(keep) ==
  /\ pc = "returned"
  /\ pc' = "idle"
  /\ body' = [kind |-> "none", message |-> ""]
  /\ user_message' = ""
  /\ topic' = ""
  /\ calls' = <<>>
  /\ prompt' = ""
  /\ reply' = NoReply
  /\ response' = ""
  /\ status' = 0
  /\ last' = IF keep
             THEN [body |-> body, topic |-> topic, response |-> response]
             ELSE last
  /\ UNCHANGED model

\* the outcomes of the outbound call of a branch
Replies(t) ==
  CASE t = "picture-of-day"    -> ApodReplies
    [] t = "near-earth-object" -> NeoReplies
    [] t = "launch"            -> SpacexReplies
    [] t = "general"           -> GeminiReplies

\* what the called function returns for an outcome
Result(t, r) ==
  CASE t = "picture-of-day"    -> get_nasa_apod(r)
    [] t = "near-earth-object" -> get_nasa_neo_data(r)
    [] t = "launch"            -> get_spacex_launch_data(r)
    [] t = "general"           -> get_smart_space_answer(r)

\* the call failed: it raised or answered with a status other than 200
Failed(r) ==
  \/ r.outcome = "raise"
  \/ r.outcome = "response" /\ "status" \in DOMAIN r /\ r.status # 200

\* as Return, but a failed call is issued again
Return_retry(t) ==
  /\ pc = "calling"
  /\ topic = t
  /\ \E r \in Replies(t) :
       /\ reply' = r
       /\ IF Failed(r) /\ Len(calls) < 2
          THEN /\ calls' = Append(calls, Endpoint(t))
               /\ UNCHANGED <<response, status, pc>>
          ELSE /\ response' \in Result(t, r)
               /\ status' = 200
               /\ pc' = "returned"
               /\ UNCHANGED calls
  /\ UNCHANGED <<model, body, user_message, topic, prompt, last>>

\* The answer to the outbound call arrives, the called function returns its
\* text without another call, and space_chat returns.
Return(t) ==
  /\ pc = "calling"
  /\ topic = t
  /\ \E r \in Replies(t) :
       /\ reply' = r
       /\ response' \in Result(t, r)
  /\ status' = 200
  /\ pc' = "returned"
  /\ UNCHANGED <<model, body, user_message, topic, calls, prompt, last>>

apod_returns == Return("picture-of-day")

neo_returns == Return("near-earth-object")

spacex_returns == Return("launch")

gemini_returns == Return("general")

Receive == space_chat(Messages)

Forget == Done(FALSE)

Next ==
  \/ Receive
  \/ Forget
  \/ apod_returns
  \/ neo_returns
  \/ spacex_returns
  \/ gemini_returns

Spec == Init /\ [][Next]_vars

\* Two exchanges in a row, the first one remembered
ReceivePair == space_chat(PairMessages)

Remember == Done(TRUE)

NextPair ==
  \/ ReceivePair
  \/ Remember
  \/ gemini_returns

SpecPair == Init /\ [][NextPair]_vars

-----------------------------------------------------------------------------
(* Properties *)

Returned == pc = "returned"

\* the body is a JSON object whose message, if any, is a string
Readable == body.kind \in {"message", "no_message"}

\* C1: whatever the message and whatever the feeds and the model do, the
\* handler returns a response text that is a non-empty string.
C1_NonEmptyResponse == Returned => (response # "" /\ status = 200)

\* the rules in the order of the claim, and the first one with a keyword in s
RuleTopics ==
  << "picture-of-day", "near-earth-object", "mars-rover", "launch",
     "agency-trivia", "constellation", "planet", "star", "galaxy" >>

RuleKeywords ==
  << {"apod", "picture", "photo", "image"},
     {"asteroid", "neo", "near earth"},
     {"mars", "rover", "curiosity"},
     {"spacex", "launch", "rocket"},
     {"isro", "indian space", "india"},
     {"ursa major", "ursa minor", "orion", "cassiopeia", "andromeda",
      "constellation", "big dipper", "little dipper"},
     {"mercury", "venus", "earth", "mars", "jupiter", "saturn", "uranus",
      "neptune", "planet"},
     {"star", "sun", "supernova", "neutron star", "white dwarf",
      "black hole"},
     {"galaxy", "milky way", "andromeda galaxy", "spiral galaxy"} >>

Hits(s) == { i \in 1..9 : \E k \in RuleKeywords[i] : Contains(k, s) }

FirstRuleTopic(s) ==
  LET hits == Hits(s)
  IN  IF hits = {} THEN "general"
      ELSE RuleTopics[CHOOSE i \in hits : \A j \in hits : i <= j]

\* C2: the topic of a message is that of the first rule, in the fixed
\* order, with a keyword contained in the lowercased message, and general
\* when there is none; a message with both "mars" and "andromeda galaxy" is
\* never galaxy, constellation or planet, and is mars-rover unless one of
\* the two rules before mars-rover matches.
C2_FirstMatchWins ==
  (pc # "idle" /\ Readable) =>
    /\ topic = FirstRuleTopic(user_message)
    /\ (Contains("mars", user_message)
          /\ Contains("andromeda galaxy", user_message)) =>
         /\ topic \notin {"galaxy", "constellation", "planet"}
         /\ (Hits(user_message) \cap {1, 2} = {} => topic = "mars-rover")

C2_Witness ==
  /\ Returned
  /\ Contains("mars", user_message)
  /\ Contains("andromeda galaxy", user_message)
  /\ topic = "mars-rover"

\* the fallback fact list of a fetcher
FallbackFacts(t) ==
  CASE t = "picture-of-day"    -> apod_facts
    [] t = "near-earth-object" -> neo_facts
    [] t = "launch"            -> spacex_facts

\* C3: when the outbound call of a fetcher raises or answers with a
\* non-success status, the fetcher returns one of the 3 fallback facts of
\* its own topic and the dispatcher sees no error.
C3_FetcherFallback ==
  (Returned /\ topic \in LiveTopics /\ Failed(reply)) =>
    /\ Len(FallbackFacts(topic)) = 3
    /\ \E i \in 1..3 : response = FallbackFacts(topic)[i]
    /\ status = 200

C3_Witness ==
  /\ Returned
  /\ topic = "near-earth-object"
  /\ reply.outcome = "response"
  /\ reply.status = 500
  /\ response = neo_facts[3]

IsNeoUpdate(text) == Contains("**NASA NEO Update**", text)

\* C4: a success-status NEO response with element_count 0, or with an
\* empty or absent list for the queried date, yields one of the 3 NEO
\* fallback facts; the NEO Update message is returned only for
\* element_count > 0 and a non-empty list, and never says "0".
C4_EmptyNeoFallsBack ==
  (Returned /\ topic = "near-earth-object" /\ reply.outcome = "response"
     /\ reply.status = 200) =>
    /\ (reply.shape = "dict"
          /\ (\/ reply.count_type = "int" /\ reply.count = 0
              \/ reply.objects \in {"absent", "no_date", "empty"})) =>
         \E i \in 1..3 : response = neo_facts[i]
    /\ IsNeoUpdate(response) =>
         /\ reply.shape = "dict"
         /\ reply.count_type = "int"
         /\ reply.count > 0
         /\ reply.objects \notin {"absent", "no_date", "empty"}
    /\ ~Contains("there are 0 Near Earth Objects", response)

C4_Witness ==
  /\ Returned
  /\ topic = "near-earth-object"
  /\ reply.outcome = "response"
  /\ reply.status = 200
  /\ reply.shape = "dict"
  /\ reply.count_type = "int"
  /\ reply.count = 0
  /\ reply.objects = "complete"
  /\ response = neo_facts[1]

\* s with every occurrence of old written as new
RECURSIVE ReplaceAll(_, _, _)
ReplaceAll(s, old, new) ==
  IF Len(s) < Len(old) THEN s
  ELSE IF SubSeq(s, 1, Len(old)) = old
  THEN new \o ReplaceAll(SubSeq(s, Len(old) + 1, Len(s)), old, new)
  ELSE SubSeq(s, 1, 1) \o ReplaceAll(SubSeq(s, 2, Len(s)), old, new)

\* the remembered exchange and the current one both carried a message
TwoMessages ==
  /\ Returned
  /\ last.body.kind = "message"
  /\ body.kind = "message"

\* C5: a message containing "scorpio" and the same message with "scorpius"
\* written instead get identical text, the shared Scorpio entry.
C5_SynonymEquivalence ==
  (TwoMessages
     /\ Contains("scorpio", last.body.message)
     /\ body.message = ReplaceAll(last.body.message, "scorpio", "scorpius")) =>
    /\ response = last.response
    /\ response = scorpio_info

\* c and d are the same letter in either case
SameLetter(c, d) ==
  \/ c = d
  \/ \E i \in 1..26 : {c, d} = {UpperCase[i], LowerCase[i]}

\* a and b differ at most in letter case
SameUpToCase(a, b) ==
  /\ Len(a) = Len(b)
  /\ \A i \in 1..Len(a) : SameLetter(SubSeq(a, i, i), SubSeq(b, i, i))

\* C6: two messages that differ only in letter case get the same topic,
\* and the same pool entry when the topic is a keyed pool.
C6_CaseInsensitive ==
  (TwoMessages /\ SameUpToCase(last.body.message, body.message)) =>
    /\ topic = last.topic
    /\ topic \in KeyedTopics => response = last.response

C6_Witness ==
  /\ TwoMessages
  /\ last.body.message = "ORION"
  /\ body.message = "orion"
  /\ topic = "constellation"
  /\ last.topic = "constellation"
  /\ response = orion_info
  /\ last.response = orion_info

IsGeneralFact(text) == \E i \in 1..6 : text = space_facts[i]

\* C7: a message with no keyword of any group, the empty message included,
\* goes to get_smart_space_answer; without a model the answer is one of the
\* 6 general facts and no call is issued; with a model the answer is the
\* model's text, or one of the 6 general facts when the call fails.
C7_GeneralFallback ==
  (pc # "idle" /\ Readable /\ Hits(user_message) = {}) =>
    /\ topic = "general"
    /\ Len(space_facts) = 6
    /\ model = "None" =>
         /\ Returned
         /\ calls = <<>>
         /\ reply.outcome = "none"
         /\ IsGeneralFact(response)
    /\ (model # "None" /\ Returned) =>
         /\ calls = <<"model.generate_content">>
         /\ reply.outcome = "response" => response = reply.text
         /\ reply.outcome = "raise" => IsGeneralFact(response)

C7_Witness ==
  /\ Returned
  /\ body = [kind |-> "message", message |-> ""]
  /\ model = "None"
  /\ calls = <<>>
  /\ response = space_facts[6]

\* C8: a body that is not a JSON object, or whose message is not a string,
\* is answered with status 200 and the apology, the universe-age fact and
\* the error text; no response has another status.
C8_BoundaryCatch ==
  Returned =>
    /\ status = 200
    /\ ~Readable =>
         /\ ErrorText(body.kind) # ""
         /\ response = Apology \o UniverseFact \o " Error details: "
                         \o ErrorText(body.kind)
         /\ calls = <<>>

C8_Witness ==
  /\ Returned
  /\ body.kind = "not_object"
  /\ status = 200
  /\ Contains("'list' object has no attribute 'get'", response)

\* the static texts a branch falls back to when its call fails
StaticFallback(t) ==
  IF t = "general" THEN space_facts ELSE FallbackFacts(t)

\* C9: one request issues at most one outbound call; after a failed call
\* the request ends with the static fallback and without another call.
C9_SingleCall ==
  /\ Len(calls) <= 1
  /\ (Returned /\ reply.outcome # "none") => calls = <<Endpoint(topic)>>
  /\ (Returned /\ Failed(reply)) =>
       \E i \in DOMAIN StaticFallback(topic) :
          response = StaticFallback(topic)[i]

C9_Witness ==
  /\ Returned
  /\ topic = "picture-of-day"
  /\ reply.outcome = "raise"
  /\ calls = <<"NASA_APOD_API">>
  /\ response = apod_facts[1]

\* C10: a mars-rover or agency-trivia request issues no outbound call and
\* answers with one of the 4 Mars facts, respectively the 5 ISRO facts.
C10_StaticTopics ==
  (pc # "idle" /\ topic \in {"mars-rover", "agency-trivia"}) =>
    /\ Returned
    /\ calls = <<>>
    /\ reply.outcome = "none"
    /\ topic = "mars-rover" =>
         /\ Len(mars_facts) = 4
         /\ \E i \in 1..4 : response = mars_facts[i]
    /\ topic = "agency-trivia" =>
         /\ Len(isro_facts) = 5
         /\ \E i \in 1..5 : response = isro_facts[i]

C10_Witness ==
  /\ Returned
  /\ topic = "agency-trivia"
  /\ model = "gemini-2.0-flash"
  /\ calls = <<>>
  /\ response = isro_facts[5]

\* the pool and the default entry of a keyed topic
PoolOf(t) ==
  CASE t = "constellation" -> constellation_data
    [] t = "planet"        -> planet_data
    [] t = "star"          -> stellar_data
    [] t = "galaxy"        -> galaxy_data

DefaultOf(t) ==
  CASE t = "constellation" -> constellation_default
    [] t = "planet"        -> planet_default
    [] t = "star"          -> stellar_default
    [] t = "galaxy"        -> galaxy_default

\* the positions of the keys of a pool contained in s
KeysIn(pool, s) == { i \in DOMAIN pool : Contains(pool[i].key, s) }

\* C11: a request routed to a keyed pool is answered with the text of the
\* first key, in insertion order, contained in the lowercased message, and
\* with the default entry of the pool when no key is contained; "what is
\* orion" gets the entry with "Orion (The Hunter)" and "Orion's Belt".
C11_FirstKeyWins ==
  (Returned /\ topic \in KeyedTopics) =>
    LET pool == PoolOf(topic)
        keys == KeysIn(pool, user_message)
    IN  /\ keys = {} => response = DefaultOf(topic)
        /\ keys # {} =>
             \E i \in keys : /\ \A j \in keys : i <= j
                             /\ response = pool[i].info
        /\ body.message = "what is orion" =>
             /\ Contains("Orion (The Hunter)", response)
             /\ Contains("Orion's Belt", response)

C11_Witness ==
  /\ Returned
  /\ body.message = "what is orion"
  /\ topic = "constellation"
  /\ response = orion_info

\* a fetcher got an answer with status 200
Answered200 ==
  /\ Returned
  /\ topic \in LiveTopics
  /\ reply.outcome = "response"
  /\ reply.status = 200

IsFallback == \E i \in 1..3 : response = FallbackFacts(topic)[i]

\* the body is not JSON or is not a JSON object, or the NEO body has an
\* element_count that is not a number or a first object that is not a JSON
\* object
BadShape ==
  \/ reply.shape # "dict"
  \/ topic = "near-earth-object"
       /\ (reply.count_type = "str" \/ reply.objects = "not_dict")

\* the body is a JSON object without some of the fields the fetcher reads
MissingFields ==
  /\ reply.shape = "dict"
  /\ CASE topic = "picture-of-day" ->
            Absent \in {reply.title, reply.explanation, reply.date, reply.url}
       [] topic = "launch" ->
            Absent \in {reply.name, reply.date_utc, reply.details,
                        reply.success}
       [] topic = "near-earth-object" ->
            \/ reply.count_type = "absent"
            \/ reply.objects \in {"absent", "no_date", "bare"}

\* C12 as stated: a success-status body of unexpected shape or with missing
\* fields yields an entry of the fallback facts, as a failed call does.
C12_ShapeFailureFallsBack ==
  (Answered200 /\ (BadShape \/ MissingFields)) => IsFallback

\* C12: a success-status body that is not JSON or not a JSON object, or a
\* NEO body whose element_count is not a number or whose first object is
\* not a JSON object, yields an entry of the fallback facts;
\* a JSON object with missing fields does not: get_nasa_apod and
\* get_spacex_launch_data format the message with the fixed default of
\* every missing field, and get_nasa_neo_data does so for a first object
\* without name or diameter, falling back only when element_count or the
\* list of the day is missing.
C12_DefaultsForMissingFields ==
  Answered200 =>
    /\ BadShape => IsFallback
    /\ (~BadShape /\ topic = "picture-of-day") =>
         response = ApodText(
           IF reply.title = Absent THEN "Amazing Space Image"
           ELSE reply.title,
           IF reply.explanation = Absent THEN "A beautiful view from space!"
           ELSE reply.explanation,
           IF reply.date = Absent THEN "Today" ELSE reply.date,
           IF reply.url = Absent THEN "NASA APOD website" ELSE reply.url)
    /\ (~BadShape /\ topic = "launch") =>
         /\ ~IsFallback
         /\ Contains("**Latest SpaceX Mission**: ", response)
         /\ reply.name = Absent => Contains("Unknown Mission", response)
         /\ reply.date_utc = Absent => Contains("Unknown Date", response)
         /\ reply.details = Absent =>
              Contains("No details available", response)
         /\ reply.success = Absent => Contains("Failed", response)
    /\ (~BadShape /\ topic = "near-earth-object") =>
         /\ (reply.count_type = "absent"
               \/ reply.objects \in {"absent", "no_date"}) => IsFallback
         /\ (reply.count_type = "int" /\ reply.count > 0
               /\ reply.objects = "bare") =>
              /\ IsNeoUpdate(response)
              /\ Contains("Unknown asteroid", response)
              /\ Contains("0.0 - 0.0 meters", response)

C12_Witness ==
  /\ Answered200
  /\ topic = "picture-of-day"
  /\ reply.shape = "dict"
  /\ reply.title = Absent
  /\ response = ApodText("Amazing Space Image",
                         "A beautiful view from space!", "Today",
                         "NASA APOD website")

\* C13: with a model configured and a message classified general, the
\* prompt sent to the model embeds the message exactly as the caller
\* supplied it, letter case included, in the fixed template.
C13_PromptEmbedsRawMessage ==
  (pc # "idle" /\ body.kind = "message" /\ topic = "general"
     /\ model # "None") =>
    /\ calls = <<"model.generate_content">>
    /\ prompt = PromptHead \o body.message \o PromptTail

\* the texts of the three shadowed entries
ShadowedTexts ==
  { "**Mars**: The Red Planet ...",
    "**Neutron Stars**: The ultra-dense remnants ...",
    "**Andromeda Galaxy (M31)**: Our nearest major galactic neighbor ..." }

\* C14: the planet entry 'mars', the star entry 'neutron star' and the
\* galaxy entry 'andromeda galaxy' are never returned: a message with
\* "mars" is taken by the mars-rover rule or an earlier one, a message with
\* "neutron star" that reaches the star pool gets the 'star' entry, and a
\* message with "andromeda galaxy" is taken by the constellation rule or an
\* earlier one.
C14_ShadowedEntries ==
  /\ response \notin ShadowedTexts
  /\ (pc # "idle" /\ Readable) =>
       /\ Contains("mars", user_message) =>
            topic \in {"picture-of-day", "near-earth-object", "mars-rover"}
       /\ (Returned /\ Contains("neutron star", user_message)
             /\ topic = "star") =>
            response = "**Stars**: Massive nuclear fusion reactors ..."
       /\ Contains("andromeda galaxy", user_message) =>
            topic \in {"picture-of-day", "near-earth-object", "mars-rover",
                       "launch", "agency-trivia", "constellation"}

C14_Witness ==
  /\ Returned
  /\ Contains("neutron star", user_message)
  /\ topic = "star"
  /\ response = stellar_data[1].info
  /\ planet_data[4].info \in ShadowedTexts
  /\ stellar_data[4].info \in ShadowedTexts
  /\ galaxy_data[2].info \in ShadowedTexts

=============================================================================
